---- MODULE Spec2Model ----
(***************************************************************************)
(* Order / Shipment / Billing processes of orders-reference-app-go.        *)
(*                                                                         *)
(* A workflow is a set of cooperatively scheduled coroutines: a coroutine  *)
(* runs from one blocking point (Future.Get, Channel.Receive, Await) to    *)
(* the next without interleaving, so every action below is one such run.   *)
(***************************************************************************)
EXTENDS Integers, Sequences, FiniteSets, TLC

VARIABLES
    shipments,   \* shipment id -> state of that Shipment workflow execution
    sigBudget,   \* carrier updates the courier may still send
    order,       \* state of the Order workflow execution
    billing,     \* fulfillment id -> state of its Charge workflow execution
    actBudget,   \* customer actions the customer may still send
    fo,          \* one FulfillOrder activity invocation
    gi,          \* one GenerateInvoice activity invocation
    cw,          \* the Charge workflow executions of one order reference
    api,         \* the requests served by the shipment API
    ls,          \* one request to list the shipments
    rt           \* shipment IDs taken to workflow IDs and back

vars == <<shipments, sigBudget, order, billing, actBudget, fo, gi, cw, api, ls, rt>>

----------------------------------------------------------------------------
(* Bounds *)

MaxSignals == 5          \* carrier updates sent to a shipment on its own
MaxOrderSignals == 2     \* carrier updates sent while an order runs
MaxCustomerActions == 2  \* customer actions sent to one order
MaxOrderItems == 2       \* items of the order
MaxItems == 3            \* items of a FulfillOrder input
MaxInvoiceItems == 2     \* items of a GenerateInvoice input
MaxSubmissions == 2      \* charge requests sent for one order reference
MaxAttempts == 2         \* attempts of one ChargeCustomer activity
MaxRequests == 3         \* requests to the shipment API
MaxExecutions == 3       \* running Shipment executions in a listing
MaxPageSize == 2         \* executions in one page of ListWorkflow
MaxIDLen == 2            \* pieces of a shipment ID

----------------------------------------------------------------------------
(* Shipment workflow: src/app/shipment/workflows.go *)

ShipmentStatusBooked == 0
ShipmentStatusDispatched == 1
ShipmentStatusDelivered == 2

ShipmentStatus ==
    {ShipmentStatusBooked, ShipmentStatusDispatched, ShipmentStatusDelivered}

Warehouses == <<"Warehouse A", "Warehouse B">>

\* One shipment (and one charge) per fulfillment.
FulfillmentIDs == 1..Len(Warehouses)

\* The activities of run, in program order.
ShipmentActivities ==
    << "BookShipment", "ShipmentBookedNotification",
       "ShipmentDispatchedNotification", "ShipmentDeliveredNotification" >>

\* new(shipmentImpl): the zero value; pc "absent" is an execution that was
\* never started, "start" one that is started and has not run yet.
shipmentImpl ==
    [ pc |-> "absent", status |-> ShipmentStatusBooked, ch |-> <<>>,
      fired |-> <<>>, err |-> "", result |-> "none", courier |-> "" ]

\* What a successful BookShipment hands back: the reference the courier
\* booked the shipment under (kept in courier, the courier's side of it).
BookShipmentResult == [CourierReference |-> "courier-ref-1"]

Running(sh) == sh.pc \notin {"absent", "done", "failed"}

\* workflow.ExecuteActivity(ctx, a.<act>, ...).Get: the activity is scheduled
\* (fired holds the activities scheduled so far) and run blocks on its result.
ExecuteActivity(sh, act) ==
    [sh EXCEPT !.pc = act, !.fired = Append(@, act)]

\* if err != nil { return nil, err }
ReturnError(sh, act) == [sh EXCEPT !.pc = "failed", !.err = act]

\* return &result, nil: result is the zero ShipmentResult, never assigned.
ReturnResult(sh) ==
    [sh EXCEPT !.pc = "done", !.result = [CourierReference |-> ""]]

\* The predicate of workflow.Await in waitForStatus.
waitForStatus_NoWait(sh, status) == TRUE

waitForStatus(sh, status) == sh.status = status

\* s.waitForStatus(ctx, status) followed by the next ExecuteActivity: the
\* coroutine goes on at once when the predicate holds, and blocks otherwise.
AwaitThenExecute(sh, status, waitPc, act) ==
    IF waitForStatus(sh, status)
    THEN ExecuteActivity(sh, act)
    ELSE [sh EXCEPT !.pc = waitPc]

\* run up to its first blocking point: workflow.Go(statusUpdater) and
\* ExecuteActivity(BookShipment).Get
run_Start(s) ==
    /\ shipments[s].pc = "start"
    /\ shipments' =
         [shipments EXCEPT ![s] = ExecuteActivity(@, "BookShipment")]
    /\ UNCHANGED <<sigBudget, order, billing, actBudget, fo, gi, cw, api, ls, rt>>

\* The courier booked the shipment.
Booked(sh) == [sh EXCEPT !.courier = BookShipmentResult.CourierReference]

AfterBookShipment_NoReturn(sh, ok) ==
    IF ok
    THEN ExecuteActivity(Booked(sh), "ShipmentBookedNotification")
    ELSE [ExecuteActivity(sh, "ShipmentBookedNotification")
            EXCEPT !.err = "BookShipment"]

\* .Get(ctx, nil): the result of BookShipment is dropped, only err is read.
AfterBookShipment(sh, ok) ==
    IF ok
    THEN ExecuteActivity(Booked(sh), "ShipmentBookedNotification")
    ELSE ReturnError(sh, "BookShipment")

\* BookShipment returns; run goes on to the booked notification
run_BookShipment(s) ==
    /\ shipments[s].pc = "BookShipment"
    /\ \E ok \in BOOLEAN :
         shipments' = [shipments EXCEPT ![s] = AfterBookShipment(@, ok)]
    /\ UNCHANGED <<sigBudget, order, billing, actBudget, fo, gi, cw, api, ls, rt>>

\* ShipmentBookedNotification returns; run waits for dispatched
run_BookedNotification(s) ==
    /\ shipments[s].pc = "ShipmentBookedNotification"
    /\ \E ok \in BOOLEAN :
         shipments' = [shipments EXCEPT ![s] =
            IF ok
            THEN AwaitThenExecute(@, ShipmentStatusDispatched,
                    "waitDispatched", "ShipmentDispatchedNotification")
            ELSE ReturnError(@, "ShipmentBookedNotification")]
    /\ UNCHANGED <<sigBudget, order, billing, actBudget, fo, gi, cw, api, ls, rt>>

\* Await wakes up in waitForStatus(Dispatched)
run_AwaitDispatched(s) ==
    /\ shipments[s].pc = "waitDispatched"
    /\ waitForStatus(shipments[s], ShipmentStatusDispatched)
    /\ shipments' = [shipments EXCEPT ![s] =
            ExecuteActivity(@, "ShipmentDispatchedNotification")]
    /\ UNCHANGED <<sigBudget, order, billing, actBudget, fo, gi, cw, api, ls, rt>>

\* ShipmentDispatchedNotification returns; run waits for delivered
run_DispatchedNotification(s) ==
    /\ shipments[s].pc = "ShipmentDispatchedNotification"
    /\ \E ok \in BOOLEAN :
         shipments' = [shipments EXCEPT ![s] =
            IF ok
            THEN AwaitThenExecute(@, ShipmentStatusDelivered,
                    "waitDelivered", "ShipmentDeliveredNotification")
            ELSE ReturnError(@, "ShipmentDispatchedNotification")]
    /\ UNCHANGED <<sigBudget, order, billing, actBudget, fo, gi, cw, api, ls, rt>>

\* Await wakes up in waitForStatus(Delivered)
run_AwaitDelivered(s) ==
    /\ shipments[s].pc = "waitDelivered"
    /\ waitForStatus(shipments[s], ShipmentStatusDelivered)
    /\ shipments' = [shipments EXCEPT ![s] =
            ExecuteActivity(@, "ShipmentDeliveredNotification")]
    /\ UNCHANGED <<sigBudget, order, billing, actBudget, fo, gi, cw, api, ls, rt>>

\* ShipmentDeliveredNotification returns; run returns
run_DeliveredNotification(s) ==
    /\ shipments[s].pc = "ShipmentDeliveredNotification"
    /\ \E ok \in BOOLEAN :
         shipments' = [shipments EXCEPT ![s] =
            IF ok
            THEN ReturnResult(@)
            ELSE ReturnError(@, "ShipmentDeliveredNotification")]
    /\ UNCHANGED <<sigBudget, order, billing, actBudget, fo, gi, cw, api, ls, rt>>

\* One turn of the loop that keeps an update only while run is in an Await.
statusUpdater_DropEarly(s) ==
    /\ Running(shipments[s])
    /\ shipments[s].pc # "start"
    /\ shipments[s].ch # <<>>
    /\ shipments' =
         IF shipments[s].pc \in {"waitDispatched", "waitDelivered"}
         THEN [shipments EXCEPT ![s].status = Head(shipments[s].ch),
                                ![s].ch = Tail(shipments[s].ch)]
         ELSE [shipments EXCEPT ![s].ch = Tail(shipments[s].ch)]
    /\ UNCHANGED <<sigBudget, order, billing, actBudget, fo, gi, cw, api, ls, rt>>

\* One turn of the loop of statusUpdater: ch.Receive, s.status = signal.Status.
\* The coroutine exists once run has started and as long as the workflow runs.
statusUpdater(s) ==
    /\ Running(shipments[s])
    /\ shipments[s].pc # "start"
    /\ shipments[s].ch # <<>>
    /\ shipments' = [shipments EXCEPT ![s].status = Head(shipments[s].ch),
                                      ![s].ch = Tail(shipments[s].ch)]
    /\ UNCHANGED <<sigBudget, order, billing, actBudget, fo, gi, cw, api, ls, rt>>

\* The courier signals ShipmentUpdate{Status: st}. The signal is buffered on
\* the channel of an open execution; no execution, or a closed one, takes none.
SignalWorkflow(s, st) ==
    /\ sigBudget > 0
    /\ sigBudget' = sigBudget - 1
    /\ shipments' =
         IF Running(shipments[s])
         THEN [shipments EXCEPT ![s].ch = Append(@, st)]
         ELSE shipments
    /\ UNCHANGED <<order, billing, actBudget, fo, gi, cw, api, ls, rt>>

\* The main coroutine of the workflow
run(s) ==
    \/ run_Start(s)
    \/ run_BookShipment(s)
    \/ run_BookedNotification(s)
    \/ run_AwaitDispatched(s)
    \/ run_DispatchedNotification(s)
    \/ run_AwaitDelivered(s)
    \/ run_DeliveredNotification(s)

ShipmentStep(s) == run(s) \/ statusUpdater(s)

----------------------------------------------------------------------------
(* Order workflow, FulfillOrder activity and the launch of the Charge     *)
(* workflow: the order package is not among the sources, only its tests   *)
(* are; modelled from the design (sections 4.3, 5, 6) and those tests.    *)

\* The null Shipment reference; a set reference is <<id>>.
NULL == <<>>

Item(sku, quantity) == [SKU |-> sku, Quantity |-> quantity]

\* All sequences over S of length at most n.
SeqsUpTo(S, n) == UNION {[1..k -> S] : k \in 0..n}

\* The rest of the items, for the second warehouse.
RestOfItems_Skip(items) == SubSeq(items, 3, Len(items))

RestOfItems(items) == SubSeq(items, 2, Len(items))

\* The allocation rule, as the FulfillOrder tests fix it: no item, no
\* fulfillment; the first item ships from Warehouse A, the others from
\* Warehouse B.
FulfillOrder(items) ==
    IF Len(items) = 0 THEN <<>>
    ELSE IF Len(items) = 1
    THEN << [Location |-> Warehouses[1], Items |-> SubSeq(items, 1, 1)] >>
    ELSE << [Location |-> Warehouses[1], Items |-> SubSeq(items, 1, 1)],
            [Location |-> Warehouses[2], Items |-> RestOfItems(items)] >>

OrderOpen == order.status \in {"pending", "awaitingFulfillmentDecision",
                               "customerActionRequired", "fulfilling"}

\* The order starts the allocation of its items.
Order_Start ==
    /\ order.status = "pending"
    /\ order' = [order EXCEPT !.status = "awaitingFulfillmentDecision"]
    /\ UNCHANGED <<shipments, sigBudget, billing, actBudget, fo, gi, cw, api, ls, rt>>

\* The allocation returns: the order has its fulfillments, none of them
\* launched, and waits for the customer.
Order_Fulfill ==
    /\ order.status = "awaitingFulfillmentDecision"
    /\ order' = [order EXCEPT
          !.status = "customerActionRequired",
          !.fulfillments =
              [f \in 1..Len(FulfillOrder(order.items)) |->
                  [Location |-> FulfillOrder(order.items)[f].Location,
                   Items |-> FulfillOrder(order.items)[f].Items,
                   Shipment |-> NULL]]]
    /\ UNCHANGED <<shipments, sigBudget, billing, actBudget, fo, gi, cw, api, ls, rt>>

\* The customer signals CustomerActionSignal{Action: a}; an open order
\* buffers it.
SignalCustomerAction(a) ==
    /\ actBudget > 0
    /\ actBudget' = actBudget - 1
    /\ order' = IF OrderOpen THEN [order EXCEPT !.ch = Append(@, a)] ELSE order
    /\ UNCHANGED <<shipments, sigBudget, billing, fo, gi, cw, api, ls, rt>>

\* What a customer action makes of an order that waits for it.
CustomerActionOutcome_AlwaysProceed(a) == "fulfilling"

CustomerActionOutcome(a) ==
    IF a = "amend" THEN "fulfilling" ELSE "cancelled"

\* The launch of Fulfillment f sets its Shipment reference.
LaunchedFulfillment_NoRef(fulfillment, f) == fulfillment

LaunchedFulfillment(fulfillment, f) ==
    [fulfillment EXCEPT !.Shipment = <<f>>]

\* The order takes the customer action it waits for: amend starts a Shipment
\* and a Charge workflow for every fulfillment, cancel ends the order.
Order_CustomerAction ==
    /\ order.status = "customerActionRequired"
    /\ order.ch # <<>>
    /\ LET next == CustomerActionOutcome(Head(order.ch))
           launched == IF next = "fulfilling"
                       THEN DOMAIN order.fulfillments ELSE {}
       IN
       /\ order' = [order EXCEPT
             !.status = next,
             !.ch = Tail(@),
             !.fulfillments =
                 [f \in DOMAIN order.fulfillments |->
                     IF f \in launched
                     THEN LaunchedFulfillment(order.fulfillments[f], f)
                     ELSE order.fulfillments[f]]]
       /\ shipments' = [s \in FulfillmentIDs |->
             IF s \in launched
             THEN [shipments[s] EXCEPT !.pc = "start"] ELSE shipments[s]]
       /\ billing' = [f \in FulfillmentIDs |->
             IF f \in launched THEN "running" ELSE billing[f]]
    /\ UNCHANGED <<sigBudget, actBudget, fo, gi, cw, api, ls, rt>>

\* Every Shipment workflow of the order has returned its result.
Order_Complete ==
    /\ order.status = "fulfilling"
    /\ \A f \in DOMAIN order.fulfillments : shipments[f].pc = "done"
    /\ order' = [order EXCEPT !.status = "completed"]
    /\ UNCHANGED <<shipments, sigBudget, billing, actBudget, fo, gi, cw, api, ls, rt>>

\* The Charge workflow of fulfillment f returns, a result or an error.
\* src/unnamed/part_000, Charge
Charge_Returns(f) ==
    /\ billing[f] = "running"
    /\ billing' = [billing EXCEPT ![f] = "returned"]
    /\ UNCHANGED <<shipments, sigBudget, order, actBudget, fo, gi, cw, api, ls, rt>>

OrderStep == Order_Start \/ Order_Fulfill \/ Order_CustomerAction \/ Order_Complete

----------------------------------------------------------------------------
(* FulfillOrder called on its own, as the tests of the order package do *)

FulfillOrder_Call ==
    /\ fo.pc = "called"
    /\ fo' = [fo EXCEPT !.pc = "returned",
                        !.result = [Fulfillments |-> FulfillOrder(fo.Items)]]
    /\ UNCHANGED <<shipments, sigBudget, order, billing, actBudget, gi, cw, api, ls, rt>>

----------------------------------------------------------------------------
(* GenerateInvoice activity: src/app/shipment/workflows.go, package billing *)

MaxInt32 == 2147483647
MinInt32 == -MaxInt32 - 1

\* a + b in int32: the sum wraps around modulo 2^32.
Int32Add(a, b) ==
    IF a > 0 /\ b > 0 /\ a > MaxInt32 - b
    THEN (a - MaxInt32 - 1) + (b - MaxInt32 - 1)
    ELSE IF a < 0 /\ b < 0 /\ a < MinInt32 - b
    THEN (a + MaxInt32 + 1) + (b + MaxInt32 + 1)
    ELSE a + b

\* a * b in int32, for b >= 0: double and add, every sum wrapping.
RECURSIVE Int32Mul(_, _)
Int32Mul(a, b) ==
    IF b = 0 THEN 0
    ELSE LET half == Int32Mul(a, b \div 2)
             twice == Int32Add(half, half)
         IN IF b % 2 = 1 THEN Int32Add(twice, a) ELSE twice

\* a / 5 in int32: Go truncates toward zero.
Int32Div5(a) ==
    IF a >= 0 \/ a % 5 = 0 THEN a \div 5 ELSE (a \div 5) + 1

CostBase == 3500
CostRange == 8500
ShippingBase == 500
ShippingRange == 500

\* 3500 + rand.Int31n(8500) and 500 + rand.Int31n(500): the ends of each range.
CostPerUnit == {CostBase, CostBase + CostRange - 1}
ShippingPerUnit == {ShippingBase, ShippingBase + ShippingRange - 1}

calculateCosts(item, costPerUnit) ==
    [ cost |-> Int32Mul(costPerUnit, item.Quantity),
      tax |-> Int32Div5(Int32Mul(costPerUnit, item.Quantity)) ]

calculateShippingCost(item, costPerUnit) ==
    Int32Mul(costPerUnit, item.Quantity)

\* var result GenerateInvoiceResult
GenerateInvoiceResult ==
    [ InvoiceReference |-> "", SubTotal |-> 0, Tax |-> 0, Shipping |-> 0,
      Total |-> 0 ]

\* The body of the loop over the items, the item priced.
AddItem_ItemOnly(result, cost, tax, shipping) ==
    [result EXCEPT
        !.SubTotal = Int32Add(@, cost),
        !.Tax = Int32Add(@, tax),
        !.Shipping = Int32Add(@, shipping),
        !.Total = Int32Add(@, Int32Add(Int32Add(cost, tax), shipping))]

AddItem(result, cost, tax, shipping) ==
    LET r == [result EXCEPT !.SubTotal = Int32Add(@, cost),
                            !.Tax = Int32Add(@, tax),
                            !.Shipping = Int32Add(@, shipping)]
    IN [r EXCEPT !.Total =
            Int32Add(@, Int32Add(Int32Add(r.SubTotal, r.Tax), r.Shipping))]

\* The three checks of the input: the error of the first that fails, or "".
ValidationError_NoCustomerCheck(input) ==
    IF input.Reference = "" THEN "OrderReference is required"
    ELSE IF Len(input.Items) = 0 THEN "invoice must have items"
    ELSE ""

ValidationError(input) ==
    IF input.CustomerID = "" THEN "CustomerID is required"
    ELSE IF input.Reference = "" THEN "OrderReference is required"
    ELSE IF Len(input.Items) = 0 THEN "invoice must have items"
    ELSE ""

\* GenerateInvoice up to the loop: the three checks of the input.
GenerateInvoice_Validate ==
    /\ gi.pc = "called"
    /\ gi' =
        IF ValidationError(gi.input) # ""
        THEN [gi EXCEPT !.pc = "failed", !.err = ValidationError(gi.input)]
        ELSE [gi EXCEPT !.pc = "loop",
                        !.result.InvoiceReference = gi.input.Reference]
    /\ UNCHANGED <<shipments, sigBudget, order, billing, actBudget, fo, cw, api, ls, rt>>

\* One turn of the loop; after the last item GenerateInvoice returns.
GenerateInvoice_Item ==
    /\ gi.pc = "loop"
    /\ \E costPerUnit \in CostPerUnit, shippingPerUnit \in ShippingPerUnit :
        LET item == gi.input.Items[Len(gi.priced) + 1]
            costs == calculateCosts(item, costPerUnit)
            shipping == calculateShippingCost(item, shippingPerUnit)
        IN gi' = [gi EXCEPT
              !.result = AddItem(@, costs.cost, costs.tax, shipping),
              !.priced = Append(@, [cost |-> costs.cost, tax |-> costs.tax,
                                    shipping |-> shipping]),
              !.pc = IF Len(gi.priced) + 1 = Len(gi.input.Items)
                     THEN "returned" ELSE "loop"]
    /\ UNCHANGED <<shipments, sigBudget, order, billing, actBudget, fo, cw, api, ls, rt>>

----------------------------------------------------------------------------
(* Charge workflow and ChargeCustomer activity: src/unnamed/part_000 and    *)
(* src/app/shipment/workflows.go (package billing); the start of the        *)
(* workflow by the billing API: src/unnamed/part_002                        *)

\* A GenerateInvoice invocation on input.
InvoiceCall(input) ==
    [ pc |-> "called", input |-> input, result |-> GenerateInvoiceResult,
      priced |-> <<>>, err |-> "" ]

\* handleCharge, ExecuteWorkflow with ID: input.Reference and no reuse
\* policy: while no execution with that ID is open a new one is started.
handleCharge_ExecuteWorkflow ==
    /\ cw.pc \in {"none", "done", "failed"}
    /\ cw.requests < MaxSubmissions
    /\ cw' = [cw EXCEPT !.pc = "start", !.runs = @ + 1, !.attempt = 0,
                        !.invoice = "none", !.chargeInput = "none",
                        !.fraud = "none", !.result = "none", !.err = "",
                        !.requests = @ + 1, !.http = "waiting",
                        !.code = 0, !.written = <<>>]
    /\ UNCHANGED <<shipments, sigBudget, order, billing, actBudget, fo, gi,
                   api, ls, rt>>

\* The status codes the handlers answer with.
StatusOK == 200
StatusBadRequest == 400
StatusNotFound == 404
StatusInternalServerError == 500

\* What a handler writes to the response: an error text or an encoded value.
ErrorBody == [kind |-> "error", result |-> "none"]
ResultBody(result) == [kind |-> "result", result |-> result]

\* handleCharge answers without a workflow: the body does not decode to a
\* ChargeInput (400), or ExecuteWorkflow fails (500).
handleCharge_Rejected(code) ==
    /\ cw.pc \in {"none", "done", "failed"}
    /\ cw.requests < MaxSubmissions
    /\ cw' = [cw EXCEPT !.requests = @ + 1, !.http = "answered",
                        !.code = code, !.written = <<ErrorBody>>]
    /\ UNCHANGED <<shipments, sigBudget, order, billing, actBudget, fo, gi,
                   api, ls, rt>>

\* var result ChargeResult
ZeroChargeResult ==
    [ InvoiceReference |-> "", SubTotal |-> 0, Tax |-> 0, Shipping |-> 0,
      Total |-> 0, Success |-> FALSE, AuthCode |-> "" ]

\* handleCharge from wf.Get to its end: the error of a failed Charge is
\* written with http.Error, and with no return after it the handler goes on
\* to encode result, which wf.Get left as it was declared.
handleCharge_Get ==
    /\ cw.http = "waiting"
    /\ cw.pc \in {"done", "failed"}
    /\ cw' = IF cw.pc = "failed"
             THEN [cw EXCEPT !.http = "answered",
                             !.code = StatusInternalServerError,
                             !.written = <<ErrorBody,
                                           ResultBody(ZeroChargeResult)>>]
             ELSE [cw EXCEPT !.http = "answered", !.code = StatusOK,
                             !.written = <<ResultBody(cw.result)>>]
    /\ UNCHANGED <<shipments, sigBudget, order, billing, actBudget, fo, gi,
                   api, ls, rt>>

\* Charge up to cwf.Get of GenerateInvoice
Charge_Start ==
    /\ cw.pc = "start"
    /\ cw' = [cw EXCEPT !.pc = "GenerateInvoice"]
    /\ gi' = InvoiceCall([CustomerID |-> cw.input.CustomerID,
                          Reference |-> cw.input.Reference,
                          Items |-> cw.input.Items])
    /\ UNCHANGED <<shipments, sigBudget, order, billing, actBudget, fo,
                   api, ls, rt>>

\* The input of ChargeCustomer, from the input of Charge and the invoice.
ChargeCustomerInput_SubTotal(input, invoice) ==
    [ CustomerID |-> input.CustomerID,
      Reference |-> invoice.InvoiceReference,
      Charge |-> invoice.SubTotal ]

ChargeCustomerInput(input, invoice) ==
    [ CustomerID |-> input.CustomerID,
      Reference |-> invoice.InvoiceReference,
      Charge |-> invoice.Total ]

\* GenerateInvoice returned: Charge returns its error, or goes on to
\* ChargeCustomer up to cwf.Get
Charge_AfterGenerateInvoice ==
    /\ cw.pc = "GenerateInvoice"
    /\ gi.pc \in {"failed", "returned"}
    /\ cw' = IF gi.pc = "failed"
             THEN [cw EXCEPT !.pc = "failed", !.err = gi.err]
             ELSE [cw EXCEPT !.pc = "ChargeCustomer",
                             !.attempt = 1,
                             !.invoice = gi.result,
                             !.chargeInput =
                                 ChargeCustomerInput(cw.input, gi.result)]
    /\ UNCHANGED <<shipments, sigBudget, order, billing, actBudget, fo, gi,
                   api, ls, rt>>

\* What the fraud check service can answer.
FraudCheckAnswers == {"passed", "declined", "error"}

\* fraudCheck: no URL, no call and never declined; else the service's answer.
fraudCheck(url, answer) == IF url = "" THEN "passed" ELSE answer

\* result.Success = !checkResult.Declined; result.AuthCode = "1234"
ChargeCustomerResult_AlwaysSuccess(fraud) ==
    [ Success |-> TRUE, AuthCode |-> "1234" ]

ChargeCustomerResult(fraud) ==
    [ Success |-> fraud # "declined", AuthCode |-> "1234" ]

\* return &ChargeResult{...}, nil
ChargeResult(invoice, charge) ==
    [ InvoiceReference |-> invoice.InvoiceReference,
      SubTotal |-> invoice.SubTotal,
      Tax |-> invoice.Tax,
      Shipping |-> invoice.Shipping,
      Total |-> invoice.Total,
      Success |-> charge.Success,
      AuthCode |-> charge.AuthCode ]

\* An attempt of ChargeCustomer came to nothing (its error, or no result
\* within StartToCloseTimeout): the activity is tried again under the
\* default retry policy, until cwf.Get gives the error to Charge.
RetryOrFail(c, err) ==
    IF c.attempt < MaxAttempts
    THEN [c EXCEPT !.attempt = @ + 1]
    ELSE [c EXCEPT !.pc = "failed", !.err = err]

\* One attempt of ChargeCustomer, and the return of Charge after it. An
\* attempt that charged the customer can still be lost to the workflow
\* (reported = FALSE): the worker stops or the result arrives too late.
ChargeCustomer ==
    /\ cw.pc = "ChargeCustomer"
    /\ \E answer \in FraudCheckAnswers, reported \in BOOLEAN :
        LET fraud == fraudCheck(cw.url, answer)
            charge == ChargeCustomerResult(fraud)
            called == [cw EXCEPT
                !.chargeCalls = @ + 1,
                !.fraud = fraud,
                !.fraudChecks = IF cw.url = "" THEN @ ELSE @ + 1]
            charged == [called EXCEPT
                !.charges = IF charge.Success THEN @ + 1 ELSE @,
                !.declines = IF charge.Success THEN @ ELSE @ + 1]
        IN cw' =
            IF fraud = "error" THEN RetryOrFail(called, "fraud check failed")
            ELSE IF ~reported THEN RetryOrFail(charged, "activity timeout")
            ELSE [charged EXCEPT !.pc = "done",
                                 !.result = ChargeResult(cw.invoice, charge)]
    /\ UNCHANGED <<shipments, sigBudget, order, billing, actBudget, fo, gi,
                   api, ls, rt>>

----------------------------------------------------------------------------
(* The shipment API: src/app/shipment/api.go *)

\* What a request body decodes to: <<st>> is a signal with status st, and a
\* body that does not decode is Malformed.
Malformed == <<>>
RequestBodies == {<<st>> : st \in ShipmentStatus} \cup {Malformed}

\* The error of h.temporal.QueryWorkflow(ShipmentWorkflowID(id), StatusQuery):
\* the service cannot be reached, or knows no such execution, or the
\* execution, which registers no handler for the query, fails it.
QueryWorkflowError(sh, unavailable) ==
    IF unavailable THEN "Unavailable"
    ELSE IF sh.pc = "absent" THEN "NotFound"
    ELSE "QueryFailed"

\* The error of h.temporal.SignalWorkflow(ShipmentWorkflowID(id), ...): ""
\* is no error; an execution that is absent or closed is not found.
SignalWorkflowError(sh, unavailable) ==
    IF unavailable THEN "Unavailable"
    ELSE IF ~Running(sh) THEN "NotFound"
    ELSE ""

\* The status code handleGetShipment answers with.
GetShipmentCode_NoNotFound(err) ==
    IF err = "" THEN StatusOK ELSE StatusInternalServerError

GetShipmentCode(err) ==
    IF err = "" THEN StatusOK
    ELSE IF err = "NotFound" THEN StatusNotFound
    ELSE StatusInternalServerError

\* The status code handleUpdateShipmentStatus answers with.
UpdateShipmentStatusCode(body, err) ==
    IF body = Malformed THEN StatusBadRequest
    ELSE IF err = "" THEN StatusOK
    ELSE IF err = "NotFound" THEN StatusNotFound
    ELSE StatusBadRequest

\* GET /shipments/{id}
handleGetShipment(id, unavailable) ==
    /\ api.pc # "idle"
    /\ api.requests < MaxRequests
    /\ LET err == QueryWorkflowError(shipments[id], unavailable)
       IN api' = [ pc |-> "responded", op |-> "get", id |-> id,
                   body |-> Malformed, decoded |-> TRUE, called |-> TRUE,
                   exists |-> shipments[id].pc # "absent",
                   err |-> err, code |-> GetShipmentCode(err),
                   requests |-> api.requests + 1 ]
    /\ UNCHANGED <<shipments, sigBudget, order, billing, actBudget, fo, gi,
                   cw, ls, rt>>

\* POST /shipments/{id}/status
handleUpdateShipmentStatus(id, body, unavailable) ==
    /\ api.pc # "idle"
    /\ api.requests < MaxRequests
    /\ LET called == body # Malformed
           err == IF called
                  THEN SignalWorkflowError(shipments[id], unavailable)
                  ELSE ""
       IN /\ api' = [ pc |-> "responded", op |-> "update", id |-> id,
                      body |-> body, decoded |-> body # Malformed,
                      called |-> called,
                      exists |-> shipments[id].pc # "absent",
                      err |-> err,
                      code |-> UpdateShipmentStatusCode(body, err),
                      requests |-> api.requests + 1 ]
          /\ shipments' =
               IF called /\ err = ""
               THEN [shipments EXCEPT ![id].ch = Append(@, body[1])]
               ELSE shipments
    /\ UNCHANGED <<sigBudget, order, billing, actBudget, fo, gi, cw, ls, rt>>

\* A string is a sequence of pieces: the ID "1" is <<"1">>.
\* ShipmentWorkflowID: "Shipment:" + id
ShipmentWorkflowID(id) == <<"Shipment:">> \o id

\* ShipmentIDFromWorkflowID with every leading "Shipment:" trimmed.
RECURSIVE ShipmentIDFromWorkflowID_TrimAll(_)
ShipmentIDFromWorkflowID_TrimAll(id) ==
    IF Len(id) > 0 /\ id[1] = "Shipment:"
    THEN ShipmentIDFromWorkflowID_TrimAll(Tail(id))
    ELSE id

\* ShipmentIDFromWorkflowID: strings.TrimPrefix(id, "Shipment:")
ShipmentIDFromWorkflowID(id) ==
    IF Len(id) > 0 /\ id[1] = "Shipment:" THEN Tail(id) ELSE id

\* The status search attribute of a listed execution: not set, set to a
\* payload that does not decode to a string, or set to a string.
StatusAttrValues == {"booked", "dispatched", "delivered"}
StatusAttrs == {"absent", "undecodable"} \cup StatusAttrValues

getStatusFromSearchAttributes(sa) ==
    IF sa = "absent" THEN [status |-> "unknown", err |-> FALSE]
    ELSE IF sa = "undecodable" THEN [status |-> "", err |-> TRUE]
    ELSE [status |-> sa, err |-> FALSE]

\* The body of the loop over resp.Executions
ListShipmentEntry_NoFallback(e) ==
    [ ID |-> ShipmentIDFromWorkflowID(e.WorkflowId),
      Status |-> getStatusFromSearchAttributes(e.SearchAttributes).status ]

ListShipmentEntry(e) ==
    LET r == getStatusFromSearchAttributes(e.SearchAttributes)
    IN [ ID |-> ShipmentIDFromWorkflowID(e.WorkflowId),
         Status |-> IF r.err THEN "unknown" ELSE r.status ]

\* The entries of the executions of one page, in order.
RECURSIVE Entries(_)
Entries(executions) ==
    IF executions = <<>> THEN <<>>
    ELSE <<ListShipmentEntry(Head(executions))>> \o Entries(Tail(executions))

\* A page token: <<k>> stands for "go on from execution k"; none is empty.
EmptyToken == <<>>

\* h.temporal.ListWorkflow when it answers: the page that token stands for
\* and the token of the page after it, empty after the last page.
ListWorkflow(execs, pageSize, token) ==
    LET from == IF token = EmptyToken THEN 1 ELSE token[1]
        to == IF from + pageSize - 1 < Len(execs)
              THEN from + pageSize - 1
              ELSE Len(execs)
    IN [ Executions |-> SubSeq(execs, from, to),
         NextPageToken |-> IF to < Len(execs) THEN <<to + 1>> ELSE EmptyToken ]

\* if len(resp.NextPageToken) == 0 { break }
LastPage_Always(resp) == TRUE

LastPage(resp) == Len(resp.NextPageToken) = 0

\* GET /shipments, one turn of the loop: ListWorkflow is asked for the page
\* of nextPageToken and answers or fails; after the last page the list is
\* encoded into the response.
handleListShipments(failed) ==
    /\ ls.pc = "listing"
    /\ LET resp == ListWorkflow(ls.execs, ls.pageSize, ls.nextPageToken)
           orders == ls.orders \o Entries(resp.Executions)
           asked == [ls EXCEPT !.requests = Append(@, ls.nextPageToken)]
       IN ls' =
            IF failed
            THEN [asked EXCEPT !.pc = "responded", !.listFailed = TRUE,
                               !.code = StatusInternalServerError,
                               !.written = <<ErrorBody>>]
            ELSE IF LastPage(resp)
            THEN [asked EXCEPT !.pc = "responded", !.orders = orders,
                               !.code = StatusOK,
                               !.written = <<ResultBody(orders)>>]
            ELSE [asked EXCEPT !.orders = orders,
                               !.nextPageToken = resp.NextPageToken]
    /\ UNCHANGED <<shipments, sigBudget, order, billing, actBudget, fo, gi,
                   cw, api, rt>>

\* Two shipment IDs are taken to their workflow IDs, as the handlers do
\* with vars["id"].
RoundTrip_ToWorkflowID ==
    /\ rt.pc = "ids"
    /\ rt' = [rt EXCEPT !.pc = "workflowIDs",
                        !.wa = ShipmentWorkflowID(rt.a),
                        !.wb = ShipmentWorkflowID(rt.b)]
    /\ UNCHANGED <<shipments, sigBudget, order, billing, actBudget, fo, gi,
                   cw, api, ls>>

\* The workflow IDs are taken back to shipment IDs, as the listing does with
\* e.GetExecution().GetWorkflowId().
RoundTrip_FromWorkflowID ==
    /\ rt.pc = "workflowIDs"
    /\ rt' = [rt EXCEPT !.pc = "back",
                        !.ra = ShipmentIDFromWorkflowID(rt.wa),
                        !.rb = ShipmentIDFromWorkflowID(rt.wb)]
    /\ UNCHANGED <<shipments, sigBudget, order, billing, actBudget, fo, gi,
                   cw, api, ls>>

----------------------------------------------------------------------------
(* Idle parts *)

OrderIdle == [ status |-> "none", items |-> <<>>, fulfillments |-> <<>>,
               ch |-> <<>> ]
BillingIdle == [f \in FulfillmentIDs |-> "absent"]
FulfillIdle == [ pc |-> "idle" ]
InvoiceIdle == [ pc |-> "idle" ]
ChargeIdle == [ pc |-> "idle" ]
ApiIdle == [ pc |-> "idle" ]
ListIdle == [ pc |-> "idle" ]
RoundTripIdle == [ pc |-> "idle" ]

----------------------------------------------------------------------------
(* An order with its shipments and charges *)

Init ==
    /\ cw = ChargeIdle
    /\ api = ApiIdle
    /\ ls = ListIdle
    /\ rt = RoundTripIdle
    /\ \E n \in 0..MaxOrderItems :
          order = [ status |-> "pending",
                    items |-> [i \in 1..n |-> Item("sku", 1)],
                    fulfillments |-> <<>>, ch |-> <<>> ]
    /\ shipments = [s \in FulfillmentIDs |-> shipmentImpl]
    /\ billing = BillingIdle
    /\ sigBudget = MaxOrderSignals
    /\ actBudget = MaxCustomerActions
    /\ fo = FulfillIdle
    /\ gi = InvoiceIdle

Next ==
    \/ OrderStep
    \/ \E a \in {"amend", "cancel"} : SignalCustomerAction(a)
    \/ \E s \in FulfillmentIDs : ShipmentStep(s)
    \/ \E s \in FulfillmentIDs, st \in ShipmentStatus : SignalWorkflow(s, st)
    \/ \E f \in FulfillmentIDs : Charge_Returns(f)

Spec == Init /\ [][Next]_vars

\* Every runnable workflow coroutine runs and every activity returns; the
\* customer and the courier owe nothing.
FairSpec ==
    /\ Spec
    /\ WF_vars(OrderStep)
    /\ \A s \in FulfillmentIDs :
          WF_vars(run(s)) /\ WF_vars(statusUpdater(s)) /\ WF_vars(Charge_Returns(s))

----------------------------------------------------------------------------
(* One Shipment execution on its own *)

ShipmentInit ==
    /\ cw = ChargeIdle
    /\ api = ApiIdle
    /\ ls = ListIdle
    /\ rt = RoundTripIdle
    /\ shipments = [s \in FulfillmentIDs |->
                      IF s = 1 THEN [shipmentImpl EXCEPT !.pc = "start"]
                               ELSE shipmentImpl]
    /\ sigBudget = MaxSignals
    /\ order = OrderIdle
    /\ billing = BillingIdle
    /\ actBudget = 0
    /\ fo = FulfillIdle
    /\ gi = InvoiceIdle

ShipmentNext ==
    \/ \E s \in FulfillmentIDs : ShipmentStep(s)
    \/ \E s \in FulfillmentIDs, st \in ShipmentStatus : SignalWorkflow(s, st)

ShipmentSpec == ShipmentInit /\ [][ShipmentNext]_vars

\* The scheduler runs every runnable coroutine, and every activity returns.
ShipmentFairSpec ==
    /\ ShipmentSpec
    /\ \A s \in FulfillmentIDs : WF_vars(run(s)) /\ WF_vars(statusUpdater(s))

----------------------------------------------------------------------------
(* One FulfillOrder call *)

Skus == {"Hiking Boots", "Tennis Shoes"}
Quantities == {1, 2}

FulfillInit ==
    /\ cw = ChargeIdle
    /\ api = ApiIdle
    /\ ls = ListIdle
    /\ rt = RoundTripIdle
    /\ \E items \in SeqsUpTo({Item(sku, q) : sku \in Skus, q \in Quantities},
                              MaxItems) :
          fo = [pc |-> "called", Items |-> items, result |-> "none"]
    /\ shipments = [s \in FulfillmentIDs |-> shipmentImpl]
    /\ sigBudget = 0
    /\ order = OrderIdle
    /\ billing = BillingIdle
    /\ actBudget = 0
    /\ gi = InvoiceIdle

FulfillNext == FulfillOrder_Call

FulfillSpec == FulfillInit /\ [][FulfillNext]_vars

----------------------------------------------------------------------------
(* One GenerateInvoice call *)

\* Quantities of an invoice item; the last makes the int32 prices wrap.
InvoiceQuantities == {1, 2, 200000}

InvoiceInit ==
    /\ cw = ChargeIdle
    /\ api = ApiIdle
    /\ ls = ListIdle
    /\ rt = RoundTripIdle
    /\ \E customer \in {"", "customer123"}, reference \in {"", "order123"},
          items \in SeqsUpTo({Item("sku", q) : q \in InvoiceQuantities},
                             MaxInvoiceItems) :
          gi = [ pc |-> "called",
                 input |-> [CustomerID |-> customer, Reference |-> reference,
                            Items |-> items],
                 result |-> GenerateInvoiceResult, priced |-> <<>>,
                 err |-> "" ]
    /\ shipments = [s \in FulfillmentIDs |-> shipmentImpl]
    /\ sigBudget = 0
    /\ order = OrderIdle
    /\ billing = BillingIdle
    /\ actBudget = 0
    /\ fo = FulfillIdle

InvoiceNext == GenerateInvoice_Validate \/ GenerateInvoice_Item

InvoiceSpec == InvoiceInit /\ [][InvoiceNext]_vars

----------------------------------------------------------------------------
(* The charge requests for one order reference *)

FraudCheckURLs == {"", "http://fraudcheck"}

\* The items of a ChargeInput: none, one item, two items.
ChargeItems ==
    { <<>>,
      <<Item("sku", 1)>>,
      <<Item("sku", 1), Item("sku", 2)>> }

BillingInit ==
    /\ \E customer \in {"", "customer123"}, reference \in {"", "order123"},
          items \in ChargeItems, url \in FraudCheckURLs :
          cw = [ pc |-> "none",
                 input |-> [CustomerID |-> customer, Reference |-> reference,
                            Items |-> items],
                 url |-> url, runs |-> 0, attempt |-> 0,
                 invoice |-> "none", chargeInput |-> "none",
                 fraud |-> "none", result |-> "none", err |-> "",
                 chargeCalls |-> 0, fraudChecks |-> 0, charges |-> 0,
                 declines |-> 0, requests |-> 0, http |-> "none",
                 code |-> 0, written |-> <<>> ]
    /\ gi = InvoiceIdle
    /\ shipments = [s \in FulfillmentIDs |-> shipmentImpl]
    /\ sigBudget = 0
    /\ order = OrderIdle
    /\ billing = BillingIdle
    /\ actBudget = 0
    /\ fo = FulfillIdle
    /\ api = ApiIdle
    /\ ls = ListIdle
    /\ rt = RoundTripIdle

BillingNext ==
    \/ handleCharge_ExecuteWorkflow
    \/ \E code \in {StatusBadRequest, StatusInternalServerError} :
          handleCharge_Rejected(code)
    \/ handleCharge_Get
    \/ Charge_Start
    \/ GenerateInvoice_Validate
    \/ GenerateInvoice_Item
    \/ Charge_AfterGenerateInvoice
    \/ ChargeCustomer

BillingSpec == BillingInit /\ [][BillingNext]_vars

----------------------------------------------------------------------------
(* Requests to the shipment API: shipment 1 exists, shipment 2 does not *)

ApiInit ==
    /\ api = [ pc |-> "ready", op |-> "none", id |-> 0, body |-> Malformed,
               decoded |-> TRUE, called |-> FALSE, exists |-> FALSE, err |-> "", code |-> 0,
               requests |-> 0 ]
    /\ shipments = [s \in FulfillmentIDs |->
                      IF s = 1 THEN [shipmentImpl EXCEPT !.pc = "start"]
                               ELSE shipmentImpl]
    /\ sigBudget = 0
    /\ order = OrderIdle
    /\ billing = BillingIdle
    /\ actBudget = 0
    /\ fo = FulfillIdle
    /\ gi = InvoiceIdle
    /\ cw = ChargeIdle
    /\ ls = ListIdle
    /\ rt = RoundTripIdle

ApiNext ==
    \/ \E id \in FulfillmentIDs, unavailable \in BOOLEAN :
          handleGetShipment(id, unavailable)
    \/ \E id \in FulfillmentIDs, body \in RequestBodies,
          unavailable \in BOOLEAN :
          handleUpdateShipmentStatus(id, body, unavailable)
    \/ \E s \in FulfillmentIDs : ShipmentStep(s)

ApiSpec == ApiInit /\ [][ApiNext]_vars

----------------------------------------------------------------------------
(* A listing of the running shipments *)

\* The running Shipment executions as the visibility store holds them.
RunningExecutions(n, attrs) ==
    [k \in 1..n |-> [ id |-> <<ToString(k)>>,
                      WorkflowId |-> ShipmentWorkflowID(<<ToString(k)>>),
                      SearchAttributes |-> attrs[k] ]]

ListInit ==
    /\ \E n \in 0..MaxExecutions, pageSize \in 1..MaxPageSize :
         \E attrs \in [1..n -> StatusAttrs] :
            ls = [ pc |-> "listing", execs |-> RunningExecutions(n, attrs),
                   pageSize |-> pageSize, nextPageToken |-> EmptyToken,
                   requests |-> <<>>, orders |-> <<>>,
                   listFailed |-> FALSE, code |-> 0, written |-> <<>> ]
    /\ shipments = [s \in FulfillmentIDs |-> shipmentImpl]
    /\ sigBudget = 0
    /\ order = OrderIdle
    /\ billing = BillingIdle
    /\ actBudget = 0
    /\ fo = FulfillIdle
    /\ gi = InvoiceIdle
    /\ cw = ChargeIdle
    /\ api = ApiIdle
    /\ rt = RoundTripIdle

ListNext == \E failed \in BOOLEAN : handleListShipments(failed)

ListSpec == ListInit /\ [][ListNext]_vars

\* The handler runs on: every call of ListWorkflow comes back.
ListFairSpec == ListSpec /\ WF_vars(ListNext)

----------------------------------------------------------------------------
(* Shipment IDs and workflow IDs *)

\* The pieces shipment IDs are made of; an ID may hold the prefix itself.
IDPieces == {"Shipment:", "1", "2"}
ShipmentIDs == SeqsUpTo(IDPieces, MaxIDLen)

RoundTripInit ==
    /\ \E a \in ShipmentIDs, b \in ShipmentIDs :
          rt = [ pc |-> "ids", a |-> a, b |-> b, wa |-> <<>>, wb |-> <<>>,
                 ra |-> <<>>, rb |-> <<>> ]
    /\ shipments = [s \in FulfillmentIDs |-> shipmentImpl]
    /\ sigBudget = 0
    /\ order = OrderIdle
    /\ billing = BillingIdle
    /\ actBudget = 0
    /\ fo = FulfillIdle
    /\ gi = InvoiceIdle
    /\ cw = ChargeIdle
    /\ api = ApiIdle
    /\ ls = ListIdle

RoundTripNext == RoundTrip_ToWorkflowID \/ RoundTrip_FromWorkflowID

RoundTripSpec == RoundTripInit /\ [][RoundTripNext]_vars

----------------------------------------------------------------------------
(* Properties of the Shipment workflow *)

ActivityIndex(act) == CHOOSE i \in 1..Len(ShipmentActivities) :
                         ShipmentActivities[i] = act

\* C1: the status of a shipment never moves to a status behind its current
\* one: every step leaves it where it is or advances it.
StatusNeverRegresses ==
    [][\A s \in FulfillmentIDs :
          shipments'[s].status >= shipments[s].status]_vars

\* A delivered update was applied to a booked shipment that has not passed
\* the wait for dispatched.
DeliveredBeforeDispatchedWait(s) ==
    /\ shipments[s].status = ShipmentStatusDelivered
    /\ shipments[s].pc \in {"ShipmentBookedNotification", "waitDispatched"}

\* C2: a booked shipment whose status jumps to delivered before the wait for
\* dispatched has been passed still runs to its end.
SkipAheadTerminates ==
    \A s \in FulfillmentIDs :
        DeliveredBeforeDispatchedWait(s) ~> shipments[s].pc \in {"done", "failed"}

\* The step fires activity act of shipment s.
Fires(s, act) ==
    /\ Len(shipments'[s].fired) = Len(shipments[s].fired) + 1
    /\ shipments'[s].fired[Len(shipments'[s].fired)] = act

\* C3: the side effects are fired in program order, the dispatched
\* notification at a status of dispatched or beyond, the delivered
\* notification at status delivered, and a successful end comes after all four.
SideEffectsInOrder ==
    /\ [](\A s \in FulfillmentIDs :
            LET sh == shipments[s] IN
            /\ Len(sh.fired) <= Len(ShipmentActivities)
            /\ \A i \in 1..Len(sh.fired) : sh.fired[i] = ShipmentActivities[i]
            /\ sh.pc = "done" => Len(sh.fired) = Len(ShipmentActivities))
    /\ [][\A s \in FulfillmentIDs :
            /\ Fires(s, "ShipmentDispatchedNotification") =>
                  /\ shipments[s].status >= ShipmentStatusDispatched
                  /\ shipments'[s].status = shipments[s].status
            /\ Fires(s, "ShipmentDeliveredNotification") =>
                  /\ shipments[s].status = ShipmentStatusDelivered
                  /\ shipments'[s].status = shipments[s].status
            /\ shipments[s].fired # shipments'[s].fired =>
                  \E act \in {ShipmentActivities[i] :
                                 i \in 1..Len(ShipmentActivities)} :
                      /\ Fires(s, act)
                      /\ SubSeq(shipments'[s].fired, 1, Len(shipments[s].fired))
                            = shipments[s].fired]_vars

SideEffectsInOrderWitness ==
    \E s \in FulfillmentIDs :
        /\ shipments[s].pc = "done"
        /\ Len(shipments[s].fired) = Len(ShipmentActivities)
        /\ sigBudget = 0

\* C4: a failed side effect ends the workflow with that error, and it is the
\* last side effect fired: after a failed booking no notification is fired.
ErrorIsFatal ==
    \A s \in FulfillmentIDs :
        LET sh == shipments[s] IN
        /\ sh.pc = "failed" <=> sh.err # ""
        /\ sh.err # "" =>
              /\ sh.err \in {ShipmentActivities[i] :
                                i \in 1..Len(ShipmentActivities)}
              /\ Len(sh.fired) = ActivityIndex(sh.err)
              /\ sh.result = "none"

ErrorIsFatalWitness ==
    \E s \in FulfillmentIDs :
        /\ shipments[s].err = "BookShipment"
        /\ shipments[s].ch # <<>>
        /\ sigBudget = 0

----------------------------------------------------------------------------
(* Properties of the Order workflow *)

NothingLaunched ==
    \A f \in FulfillmentIDs :
        shipments[f].pc = "absent" /\ billing[f] = "absent"

\* Both fulfillments of the order are launched and a delivered update was
\* applied to each shipment.
BothShipmentsDelivered ==
    /\ order.status = "fulfilling"
    /\ Len(order.fulfillments) = 2
    /\ \A f \in FulfillmentIDs : shipments[f].status = ShipmentStatusDelivered

\* C5: once the customer amended an order of two fulfillments and both
\* shipments got a delivered update, the order becomes completed (no side
\* effect of a shipment failing), whatever the charges do.
OrderCompletes ==
    BothShipmentsDelivered ~>
        \/ order.status = "completed"
        \/ \E f \in FulfillmentIDs : shipments[f].pc = "failed"

CancelIsFinal ==
    /\ [](order.status = "cancelled" => NothingLaunched)
    /\ [][order.status = "cancelled" => order'.status = "cancelled"]_vars
    /\ [][(/\ order.status = "customerActionRequired"
           /\ order.ch # <<>>
           /\ Head(order.ch) = "cancel"
           /\ order'.status # "customerActionRequired")
              => order'.status = "cancelled"]_vars

CancelIsFinalWitness ==
    /\ order.status = "cancelled"
    /\ Len(order.fulfillments) = 2
    /\ actBudget = 0
    /\ sigBudget = 0

----------------------------------------------------------------------------
(* Properties of FulfillOrder *)

RECURSIVE ConcatItems(_)
ConcatItems(fulfillments) ==
    IF fulfillments = <<>> THEN <<>>
    ELSE Head(fulfillments).Items \o ConcatItems(Tail(fulfillments))

\* C8: the fulfillments' item lists, concatenated, are the order's item
\* list; no item gives no fulfillment; up to two items each item is alone in
\* its fulfillment, the first at Warehouse A and the second at Warehouse B.
FulfillmentsPartitionItems ==
    fo.pc = "returned" =>
        LET fs == fo.result.Fulfillments IN
        /\ ConcatItems(fs) = fo.Items
        /\ \A f \in DOMAIN fs : fs[f].Items # <<>>
        /\ fo.Items = <<>> => fs = <<>>
        /\ Len(fo.Items) <= 2 =>
              /\ Len(fs) = Len(fo.Items)
              /\ \A i \in DOMAIN fs :
                    /\ fs[i].Items = <<fo.Items[i]>>
                    /\ fs[i].Location = Warehouses[i]

FulfillmentsPartitionItemsWitness ==
    /\ fo.pc = "returned"
    /\ Len(fo.Items) = 2
    /\ fo.Items[1] # fo.Items[2]
    /\ Len(fo.result.Fulfillments) = 2

----------------------------------------------------------------------------
(* Properties of GenerateInvoice *)

ItemSum(p) == Int32Add(Int32Add(p.cost, p.tax), p.shipping)

\* The prices of the first k items, summed.
RECURSIVE SumOfItems(_, _)
SumOfItems(priced, k) ==
    IF k = 0 THEN 0
    ELSE Int32Add(SumOfItems(priced, k - 1), ItemSum(priced[k]))

\* The sum over k of the prices of the first k items.
RECURSIVE RunningTotal(_, _)
RunningTotal(priced, k) ==
    IF k = 0 THEN 0
    ELSE Int32Add(RunningTotal(priced, k - 1), SumOfItems(priced, k))

\* C9: the Total of the invoice is the sum of the prices of its items, which
\* is its SubTotal + Tax + Shipping.
TotalIsSumOfItems ==
    gi.pc = "returned" =>
        /\ gi.result.Total = SumOfItems(gi.priced, Len(gi.priced))
        /\ gi.result.Total =
              Int32Add(Int32Add(gi.result.SubTotal, gi.result.Tax),
                       gi.result.Shipping)

\* C10: after every item the Total is the running total, the sum over k of
\* the accumulated SubTotal + Tax + Shipping of the first k items; the items
\* priced (100, 20, 10) and (200, 40, 20) give 130 + 390 = 520.
TotalIsRunningTotal ==
    /\ gi.pc \in {"loop", "returned"} =>
          /\ gi.result.Total = RunningTotal(gi.priced, Len(gi.priced))
          /\ Int32Add(Int32Add(gi.result.SubTotal, gi.result.Tax),
                      gi.result.Shipping)
                = SumOfItems(gi.priced, Len(gi.priced))
    /\ gi.pc = "returned" => Len(gi.priced) = Len(gi.input.Items)
    /\ AddItem(AddItem(GenerateInvoiceResult, 100, 20, 10),
               200, 40, 20).Total = 520

TotalIsRunningTotalWitness ==
    /\ gi.pc = "returned"
    /\ Len(gi.priced) = 2
    /\ gi.result.Total # SumOfItems(gi.priced, 2)
    /\ gi.result.Total > 0

\* C11: on an input that passes validation, with positive quantities, the
\* SubTotal, Tax, Shipping and Total of the invoice are all non-negative.
InvoiceAmountsNonNegative ==
    (/\ gi.pc = "returned"
     /\ \A i \in DOMAIN gi.input.Items : gi.input.Items[i].Quantity > 0)
        => /\ gi.result.SubTotal >= 0
           /\ gi.result.Tax >= 0
           /\ gi.result.Shipping >= 0
           /\ gi.result.Total >= 0

----------------------------------------------------------------------------
(* More properties of the Shipment workflow *)

\* C15: the result of a shipment that ended well carries the courier
\* reference its booking got.
ResultCarriesCourierReference ==
    \A s \in FulfillmentIDs :
        shipments[s].pc = "done" =>
            /\ shipments[s].courier # ""
            /\ shipments[s].result.CourierReference = shipments[s].courier


\* The last update sent to shipment s is dispatched, it was sent before run
\* reached the wait for dispatched, and the courier sends no more.
DispatchedBeforeWait(s) ==
    /\ shipments[s].pc \in {"start", "BookShipment",
                            "ShipmentBookedNotification"}
    /\ sigBudget = 0
    /\ IF shipments[s].ch = <<>>
       THEN shipments[s].status = ShipmentStatusDispatched
       ELSE shipments[s].ch[Len(shipments[s].ch)] = ShipmentStatusDispatched

Occurrences(seq, x) == Cardinality({i \in DOMAIN seq : seq[i] = x})

\* run of shipment sh is not blocked: it is not in an Await whose condition
\* is false.
MainCanStep(sh) ==
    /\ Running(sh)
    /\ sh.pc = "waitDispatched" => waitForStatus(sh, ShipmentStatusDispatched)
    /\ sh.pc = "waitDelivered" => waitForStatus(sh, ShipmentStatusDelivered)

\* statusUpdater of shipment s takes an update from the channel.
ListenerStep(s) ==
    /\ shipments[s].ch # <<>>
    /\ shipments'[s].ch = Tail(shipments[s].ch)
    /\ shipments'[s].pc = shipments[s].pc

\* C20: whatever updates arrive and however the listener and run interleave,
\* the booking and each notification are fired at most once, and the
\* listener taking an update never blocks a run that could take a step.
DuplicatesAreHarmless ==
    /\ [](\A s \in FulfillmentIDs :
            \A i \in 1..Len(ShipmentActivities) :
                Occurrences(shipments[s].fired, ShipmentActivities[i]) <= 1)
    /\ [][\A s \in FulfillmentIDs :
            (ListenerStep(s) /\ MainCanStep(shipments[s])) =>
                MainCanStep(shipments'[s])]_vars

----------------------------------------------------------------------------
(* Properties of the Charge workflow *)

InvalidChargeInput ==
    \/ cw.input.CustomerID = ""
    \/ cw.input.Reference = ""
    \/ cw.input.Items = <<>>

\* C12: a Charge whose input lacks the customer, the reference or the items
\* ends with the validation error of GenerateInvoice, has no invoice, and
\* neither the fraud check nor ChargeCustomer is ever called.
InvalidInputNeverCharged ==
    (cw.pc # "idle" /\ InvalidChargeInput) =>
        /\ cw.invoice = "none"
        /\ cw.result = "none"
        /\ cw.chargeCalls = 0
        /\ cw.fraudChecks = 0
        /\ cw.charges = 0
        /\ cw.pc \notin {"ChargeCustomer", "done"}
        /\ gi.pc \notin {"loop", "returned"}
        /\ cw.pc = "failed" =>
              cw.err \in {"CustomerID is required",
                          "OrderReference is required",
                          "invoice must have items"}

InvalidInputNeverChargedWitness ==
    /\ cw.pc = "failed"
    /\ cw.runs = 2
    /\ cw.input.CustomerID = ""
    /\ cw.input.Items # <<>>
    /\ cw.url # ""

\* C13: a Charge that returns a result has Success = FALSE exactly when the
\* fraud check declined; a declined charge is a result, never an error; with
\* no fraud check URL nothing is declined and no check is called.
SuccessUnlessDeclined ==
    /\ cw.pc = "done" =>
          /\ cw.err = ""
          /\ cw.fraud \in {"passed", "declined"}
          /\ cw.result.Success = (cw.fraud # "declined")
    /\ (cw.pc \in {"ChargeCustomer", "failed"} /\ cw.fraud = "declined") =>
          cw.err = "activity timeout" \/ cw.err = ""
    /\ (cw.pc # "idle" /\ cw.url = "") =>
          /\ cw.fraudChecks = 0
          /\ cw.declines = 0
          /\ cw.fraud \in {"none", "passed"}
          /\ cw.pc = "done" => cw.result.Success

SuccessUnlessDeclinedWitness ==
    /\ cw.pc = "done"
    /\ cw.fraud = "declined"
    /\ cw.result.Success = FALSE
    /\ cw.attempt = 1

\* C14: the customer is charged at most once for one order reference,
\* whatever is retried or sent again.
ChargedAtMostOnce == cw.pc # "idle" => cw.charges <= 1

\* C21: ChargeCustomer is called only once GenerateInvoice has returned an
\* invoice, with Charge the invoice's Total and Reference its
\* InvoiceReference; a Charge that succeeds returns the invoice's amounts
\* and reference as they are with the charge's Success and AuthCode; a
\* Charge that fails returns the error and no result.
ChargeIsSequential ==
    /\ [](cw.pc # "idle" =>
          /\ cw.pc \in {"none", "start", "GenerateInvoice"} =>
                cw.chargeInput = "none" /\ cw.result = "none"
          /\ cw.pc = "ChargeCustomer" =>
                /\ gi.pc = "returned"
                /\ cw.result = "none"
                /\ cw.chargeInput.CustomerID = cw.input.CustomerID
                /\ cw.chargeInput.Reference = gi.result.InvoiceReference
                /\ cw.chargeInput.Charge = gi.result.Total
          /\ cw.pc = "done" =>
                /\ cw.err = ""
                /\ cw.result.InvoiceReference = gi.result.InvoiceReference
                /\ cw.result.SubTotal = gi.result.SubTotal
                /\ cw.result.Tax = gi.result.Tax
                /\ cw.result.Shipping = gi.result.Shipping
                /\ cw.result.Total = gi.result.Total
                /\ cw.result.Success = (cw.fraud # "declined")
                /\ cw.result.AuthCode = "1234"
                /\ cw.chargeInput.Charge = cw.result.Total
          /\ cw.pc = "failed" => cw.err # "" /\ cw.result = "none")
    /\ [][cw.pc # "idle" =>
            /\ cw'.chargeCalls # cw.chargeCalls =>
                  cw.pc = "ChargeCustomer" /\ gi.pc = "returned"
            /\ (cw.pc = "GenerateInvoice" /\ cw'.pc = "failed") =>
                  gi.pc = "failed" /\ cw'.err = gi.err]_vars

ChargeIsSequentialWitness ==
    /\ cw.pc = "done"
    /\ Len(cw.input.Items) = 2
    /\ cw.result.Success
    /\ cw.result.Total = cw.chargeInput.Charge
    /\ cw.result.Total # cw.result.SubTotal

\* C23: handleCharge writes one outcome per request: the error alone when
\* the request is refused or the Charge workflow failed, the ChargeResult of
\* the workflow alone when it succeeded.
OneOutcomePerRequest ==
    (cw.pc # "idle" /\ cw.http = "answered") =>
        /\ Len(cw.written) = 1
        /\ cw.written[1].kind = "error" => cw.code # StatusOK
        /\ cw.written[1].kind = "result" =>
              /\ cw.pc = "done"
              /\ cw.code = StatusOK
              /\ cw.written[1].result = cw.result

----------------------------------------------------------------------------
(* Properties of the shipment API *)

\* A handler answered a request for a shipment for which no execution
\* exists, and the service answered its call.
AnsweredForAbsent ==
    /\ api'.requests = api.requests + 1
    /\ ~api'.exists
    /\ api'.called
    /\ api'.err # "Unavailable"

\* C16: a query of, or a signal to, a shipment ID with no Shipment execution
\* is answered 404, not 500 and not 200, and changes no shipment.
AbsentShipmentIsNotFound ==
    [][AnsweredForAbsent =>
          /\ api'.code = StatusNotFound
          /\ shipments' = shipments]_vars

AbsentShipmentIsNotFoundWitness ==
    /\ api.pc = "responded"
    /\ api.op = "update"
    /\ ~api.exists
    /\ api.code = StatusNotFound
    /\ shipments[1].pc = "waitDispatched"

\* C17: each failure of the get and update handlers falls in one category:
\* 400 for a malformed body, 404 for a target that is not found, 500 for any
\* other failure of the query or signal call.
FailureCategories ==
    api.pc = "responded" =>
        /\ api.code = StatusBadRequest <=> ~api.decoded
        /\ api.code = StatusNotFound <=> api.err = "NotFound"
        /\ api.code = StatusInternalServerError <=>
              api.err \notin {"", "NotFound"}


\* The status a listing owes an execution: its own, or unknown if none can
\* be derived.
DerivedStatus(e) ==
    IF e.SearchAttributes \in StatusAttrValues
    THEN e.SearchAttributes
    ELSE "unknown"

\* C18: a listing that is answered has one entry for each running Shipment
\* execution, in order, with the execution's own status, or unknown where
\* the status attribute is absent or does not decode; only a failure of
\* ListWorkflow itself ends the listing without the list.
ListingIsComplete ==
    /\ ls.pc # "idle" => Len(ls.orders) <= Len(ls.execs)
    /\ (ls.pc = "responded" /\ ~ls.listFailed) =>
          /\ ls.code = StatusOK
          /\ Len(ls.orders) = Len(ls.execs)
    /\ (ls.pc = "responded" /\ ls.listFailed) =>
          ls.code = StatusInternalServerError
    /\ ls.pc # "idle" =>
          \A k \in DOMAIN ls.orders :
              /\ ls.orders[k].ID = ls.execs[k].id
              /\ ls.orders[k].Status = DerivedStatus(ls.execs[k])

ListingIsCompleteWitness ==
    /\ ls.pc = "responded"
    /\ ls.code = StatusOK
    /\ ls.pageSize = 1
    /\ Len(ls.orders) = 3
    /\ ls.execs[1].SearchAttributes = "undecodable"
    /\ ls.execs[2].SearchAttributes = "absent"
    /\ ls.orders[3].Status = "delivered"

----------------------------------------------------------------------------
(* Properties of the shipment identifiers *)

\* C24: a shipment ID taken to its workflow ID and back is the same ID, also
\* when the ID itself starts with "Shipment:", and two different shipment
\* IDs have different workflow IDs.
IDsRoundTrip ==
    /\ rt.pc = "back" => rt.ra = rt.a /\ rt.rb = rt.b
    /\ (rt.pc \in {"workflowIDs", "back"} /\ rt.a # rt.b) => rt.wa # rt.wb

IDsRoundTripWitness ==
    /\ rt.pc = "back"
    /\ rt.a = <<"Shipment:", "1">>
    /\ rt.b = <<"1">>
    /\ rt.ra = rt.a


\* The token ListWorkflow gave with the page asked for by token.
TokenAfter(token) == ListWorkflow(ls.execs, ls.pageSize, token).NextPageToken

\* C22: the listing asks for the first page with no token and for each
\* further page with the token of the page before, goes on while that token
\* is not empty and stops when it is; it always comes to an answer; the
\* answer holds each execution of each page once, in page order, or, when a
\* page request failed, the internal error and no list.
PagesInOrder ==
    /\ ls.pc = "listing" ~> ls.pc = "responded"
    /\ [](ls.pc # "idle" =>
          /\ \A i \in DOMAIN ls.requests :
                /\ i = 1 => ls.requests[i] = EmptyToken
                /\ i > 1 =>
                      /\ TokenAfter(ls.requests[i - 1]) # EmptyToken
                      /\ ls.requests[i] = TokenAfter(ls.requests[i - 1])
          /\ (ls.pc = "responded" /\ ~ls.listFailed) =>
                /\ TokenAfter(ls.requests[Len(ls.requests)]) = EmptyToken
                /\ ls.code = StatusOK
                /\ Len(ls.written) = 1
                /\ ls.written[1].kind = "result"
                /\ ls.written[1].result = ls.orders
                /\ Len(ls.orders) = Len(ls.execs)
                /\ \A k \in DOMAIN ls.orders :
                      ls.orders[k].ID = ls.execs[k].id
          /\ (ls.pc = "responded" /\ ls.listFailed) =>
                /\ ls.code = StatusInternalServerError
                /\ Len(ls.written) = 1
                /\ ls.written[1].kind = "error")

PagesInOrderWitness ==
    /\ ls.pc = "responded"
    /\ ls.code = StatusOK
    /\ ls.pageSize = 2
    /\ Len(ls.execs) = 3
    /\ ls.requests = <<EmptyToken, <<3>>>>
    /\ Len(ls.orders) = 3

====
